---------------------------- MODULE Spec2Model ----------------------------
(***************************************************************************)
(* FBX Export Tools (FBXExportTools.py): the export() operation of the     *)
(* Blender add-on, as a state machine over a host scene.                   *)
(*                                                                         *)
(* The scene is the part of bpy.data / bpy.context the code reads and      *)
(* writes: objects (type, parent, transform, data block, modifiers,        *)
(* visibility, selection), data blocks, and the layer-collection tree of   *)
(* the active view layer.  The module-level ledger of the add-on           *)
(* (shared_data and the four hidden/disabled lists) keeps the source's     *)
(* names.                                                                  *)
(*                                                                         *)
(* 4x4 affine matrices are kept exactly, over the integers: a 3x3 linear   *)
(* part (row major) and a translation.  The scenes drawn by Init use       *)
(* quarter-turn rotations, so every matrix met has determinant +1 or -1    *)
(* and inverts exactly.                                                    *)
(***************************************************************************)
EXTENDS Integers, Sequences, FiniteSets, TLC

\* Number of objects in bpy.data.objects (named by Name, visited in this order).
NObj == 3
\* Number of layer collections below the view layer's root collection.
NCol == 3

Obj == 1..NObj
\* Layer collections: 0 is bpy.context.view_layer.layer_collection.
Col == 0..NCol
\* Data-block identifiers: each object is copied at most once per run.
DataId == 1..(2 * NObj)

---------------------------------------------------------------------------
(* mathutils.Matrix, restricted to affine 4x4 matrices.                    *)

I3 == <<1, 0, 0,  0, 1, 0,  0, 0, 1>>
Zero3 == <<0, 0, 0>>

\* a @ b on the 3x3 linear parts
Mul3(a, b) ==
    [k \in 1..9 |->
        LET r == (k - 1) \div 3
            c == (k - 1) % 3
        IN  a[3 * r + 1] * b[c + 1] + a[3 * r + 2] * b[c + 4] + a[3 * r + 3] * b[c + 7]]

\* a @ v, a 3x3 and v a vector
MulVec(a, v) ==
    [r \in 1..3 |-> a[3 * r - 2] * v[1] + a[3 * r - 1] * v[2] + a[3 * r] * v[3]]

Det3(a) ==
      a[1] * (a[5] * a[9] - a[6] * a[8])
    - a[2] * (a[4] * a[9] - a[6] * a[7])
    + a[3] * (a[4] * a[8] - a[5] * a[7])

\* the adjugate of a (transposed cofactors)
Adj3(a) ==
    << a[5] * a[9] - a[6] * a[8],  a[3] * a[8] - a[2] * a[9],  a[2] * a[6] - a[3] * a[5],
       a[6] * a[7] - a[4] * a[9],  a[1] * a[9] - a[3] * a[7],  a[3] * a[4] - a[1] * a[6],
       a[4] * a[8] - a[5] * a[7],  a[2] * a[7] - a[1] * a[8],  a[1] * a[5] - a[2] * a[4] >>

\* the inverse of a 3x3 of determinant +1 or -1 (then 1/det = det)
Inv3(a) == [k \in 1..9 |-> Adj3(a)[k] * Det3(a)]

Neg3(a) == [k \in 1..9 |-> 0 - a[k]]

Mat(l, t) == [l |-> l, t |-> t]

\* mathutils.Matrix.Identity(4)
Identity == Mat(I3, Zero3)

\* a @ b
MatMul(a, b) ==
    Mat(Mul3(a.l, b.l), [r \in 1..3 |-> MulVec(a.l, b.t)[r] + a.t[r]])

\* Matrix.inverted()
Inverted(a) ==
    LET li == Inv3(a.l)
    IN  Mat(li, [r \in 1..3 |-> 0 - MulVec(li, a.t)[r]])

\* mathutils.Matrix.Translation(v)
Translation(v) == Mat(I3, v)

\* mathutils.Matrix.Rotation(math.radians(deg), 4, 'X'), deg a multiple of 90:
\* rows (1,0,0), (0,cos,-sin), (0,sin,cos)
RotationX(deg) ==
    LET q == (deg \div 90) % 4
        cs == <<1, 0, -1, 0>>[q + 1]
        sn == <<0, 1, 0, -1>>[q + 1]
    IN  Mat(<<1, 0, 0,  0, cs, 0 - sn,  0, sn, cs>>, Zero3)

\* mathutils.Matrix.Rotation(math.radians(deg), 4, 'Z')
RotationZ(deg) ==
    LET q == (deg \div 90) % 4
        cs == <<1, 0, -1, 0>>[q + 1]
        sn == <<0, 1, 0, -1>>[q + 1]
    IN  Mat(<<cs, 0 - sn, 0,  sn, cs, 0,  0, 0, 1>>, Zero3)


---------------------------------------------------------------------------
(* The host scene (bpy.data, bpy.context.view_layer), as a record sc:      *)
(*   type, parent, in_view, basis, pinv, data, modifiers, hide,            *)
(*   hide_viewport, select          per object                             *)
(*   geo, ndata                     data blocks: the linear map baked into *)
(*                                  each block so far, and how many exist  *)
(*   exclude, col_hide, col_disable per layer collection                   *)
(*   convert_poll                   what bpy.ops.object.convert.poll()     *)
(*                                  answers in this context                *)

\* ob.name, the key of bpy.data.objects
Name(o) == <<"A", "B", "C", "D", "E", "F">>[o]

\* the objects of a set, in bpy.data.objects order
RECURSIVE InOrder(_, _)
InOrder(S, from) ==
    IF from > NObj THEN <<>>
    ELSE (IF from \in S THEN <<from>> ELSE <<>>) \o InOrder(S, from + 1)

\* col.children of a layer collection, in order: collections 2c+1 and 2c+2
ColChildren(c) ==
    (IF 2 * c + 1 \in Col THEN <<2 * c + 1>> ELSE <<>>)
        \o (IF 2 * c + 2 \in Col THEN <<2 * c + 2>> ELSE <<>>)

\* ob.children
Children(sc, o) == {c \in Obj : sc.parent[c] = o}

\* ob.data.users, for a data block d
Users(sc, d) == Cardinality({o \in Obj : sc.data[o] = d})

\* ob.matrix_world after the dependency graph has been evaluated:
\* parent.matrix_world @ matrix_parent_inverse @ matrix_basis
RECURSIVE MatrixWorld(_, _)
MatrixWorld(sc, o) ==
    IF sc.parent[o] = 0 THEN sc.basis[o]
    ELSE MatMul(MatrixWorld(sc, sc.parent[o]), MatMul(sc.pinv[o], sc.basis[o]))

\* reading ob.matrix_local: the world matrix relative to the parent's
MatrixLocal(sc, o) ==
    IF sc.parent[o] = 0 THEN MatrixWorld(sc, o)
    ELSE MatMul(Inverted(MatrixWorld(sc, sc.parent[o])), MatrixWorld(sc, o))

\* assigning ob.matrix_local = m: the parent inverse is undone before the
\* matrix is stored as the object's own loc/rot/scale
SetMatrixLocal(sc, o, m) ==
    [sc EXCEPT !.basis[o] =
        IF sc.parent[o] = 0 THEN m ELSE MatMul(Inverted(sc.pinv[o]), m)]

\* the rotation and the scale Blender stores for a linear part l (quarter
\* turns, possibly mirrored: a negative determinant is stored as scale -1)
RotOf(l) == IF Det3(l) < 0 THEN Neg3(l) ELSE l
ScaleOf(l) == IF Det3(l) < 0 THEN Neg3(I3) ELSE I3

\* object types whose data transform_apply rewrites
ApplyTypes == {"MESH", "ARMATURE", "CURVE", "SURFACE", "FONT", "META"}

\* bpy.ops.object.select_all(action='DESELECT'); ob.select_set(True);
\* bpy.ops.object.transform_apply(location=False, rotation=.., scale=..):
\* the applied part of the object's own matrix is multiplied into its data
\* and reset on the object; the object's children keep their world matrix
\* (their basis becomes that world matrix, their parent inverse the inverse
\* of the parent's new world matrix)
TransformApply(sc, o, rotation, scale) ==
    LET l == sc.basis[o].l
        rs == IF rotation /\ scale THEN l
              ELSE IF rotation THEN RotOf(l)
              ELSE IF scale THEN ScaleOf(l)
              ELSE I3
        left == IF rotation /\ scale THEN I3
                ELSE IF rotation THEN ScaleOf(l)
                ELSE IF scale THEN RotOf(l)
                ELSE l
        d == sc.data[o]
        sel == [sc EXCEPT !.select = [x \in Obj |-> x = o]]
        s1 == [sel EXCEPT
                 !.geo = IF sc.type[o] \in ApplyTypes /\ d # 0
                         THEN [sc.geo EXCEPT ![d] = Mul3(rs, @)]
                         ELSE sc.geo,
                 !.basis[o] = Mat(left, sc.basis[o].t)]
        pw == MatrixWorld(s1, o)
    IN  IF sc.type[o] \notin ApplyTypes \cup {"EMPTY"} THEN sel
        ELSE [s1 EXCEPT
                !.basis = [c \in Obj |->
                    IF c \in Children(sc, o) THEN MatrixWorld(sc, c) ELSE s1.basis[c]],
                !.pinv = [c \in Obj |->
                    IF c \in Children(sc, o) THEN Inverted(pw) ELSE s1.pinv[c]]]


---------------------------------------------------------------------------
(* The add-on's functions.  Those that write the ledger work on a record   *)
(* st holding the scene (sc) and the module-level ledger variables.        *)

\* item.hide_viewport = False for the items of a list
ClearColHide(sc, items) ==
    [sc EXCEPT !.col_hide =
        [c \in Col |-> IF \E k \in 1..Len(items) : items[k] = c THEN FALSE ELSE @[c]]]

\* item.collection.hide_viewport = False for the items of a list
ClearColDisable(sc, items) ==
    [sc EXCEPT !.col_disable =
        [c \in Col |-> IF \E k \in 1..Len(items) : items[k] = c THEN FALSE ELSE @[c]]]

\* HiddenChildren without the "not item.exclude" test
HiddenChildrenOfAny(sc, col) ==
    LET IsHidden(item) == sc.col_hide[item]
    IN  SelectSeq(ColChildren(col), IsHidden)

\* line 40: [item for item in col.children if not item.exclude and item.hide_viewport]
HiddenChildren(sc, col) ==
    LET IsHidden(item) == ~sc.exclude[item] /\ sc.col_hide[item]
    IN  SelectSeq(ColChildren(col), IsHidden)

\* line 48: [item for item in col.children
\*           if not item.exclude and item.collection.hide_viewport]
DisabledChildren(sc, col) ==
    LET IsDisabled(item) == ~sc.exclude[item] /\ sc.col_disable[item]
    IN  SelectSeq(ColChildren(col), IsDisabled)

\* unhide_collections(col)
RECURSIVE unhide_collections(_, _)
RECURSIVE UnhideChildren(_, _, _)
unhide_collections(st, col) ==
    IF st.sc.exclude[col] THEN st
    ELSE
        LET hidden == HiddenChildren(st.sc, col)
            s1 == ClearColHide(st.sc, hidden)
            disabled == DisabledChildren(s1, col)
            s2 == ClearColDisable(s1, disabled)
            st2 == [st EXCEPT !.sc = s2,
                              !.hidden_collections = @ \o hidden,
                              !.disabled_collections = @ \o disabled]
        IN  UnhideChildren(st2, ColChildren(col), 1)

\* the loop "for item in col.children: unhide_collections(item)", from the k-th child
UnhideChildren(st, kids, k) ==
    IF k > Len(kids) THEN st
    ELSE UnhideChildren(unhide_collections(st, kids[k]), kids, k + 1)

\* UnhideObject with the hidden object appended to the wrong list
UnhideObjectWrongList(st, ob) ==
    LET st1 == IF st.sc.hide[ob]
               THEN [st EXCEPT !.disabled_objects = Append(@, ob), !.sc.hide[ob] = FALSE]
               ELSE st
    IN  IF st1.sc.hide_viewport[ob]
        THEN [st1 EXCEPT !.disabled_objects = Append(@, ob), !.sc.hide_viewport[ob] = FALSE]
        ELSE st1

\* one turn of the loop of unhide_objects
UnhideObject(st, ob) ==
    LET st1 == IF st.sc.hide[ob]
               THEN [st EXCEPT !.hidden_objects = Append(@, ob), !.sc.hide[ob] = FALSE]
               ELSE st
    IN  IF st1.sc.hide_viewport[ob]
        THEN [st1 EXCEPT !.disabled_objects = Append(@, ob), !.sc.hide_viewport[ob] = FALSE]
        ELSE st1

RECURSIVE UnhideObjectsFrom(_, _, _)
UnhideObjectsFrom(st, obs, k) ==
    IF k > Len(obs) THEN st
    ELSE UnhideObjectsFrom(UnhideObject(st, obs[k]), obs, k + 1)

\* unhide_objects()
unhide_objects(st) ==
    LET view_layer_objects == InOrder({ob \in Obj : st.sc.in_view[ob]}, 1)
    IN  UnhideObjectsFrom(st, view_layer_objects, 1)

\* the object types whose shared data may be re-shared after the run
GeometryTypes == {"MESH", "CURVE", "SURFACE", "FONT", "META"}

\* len([mod for mod in user.modifiers if mod.show_viewport])
ActiveModifiers(sc, user) ==
    Cardinality({k \in 1..Len(sc.modifiers[user]) : sc.modifiers[user][k].show_viewport})

RECURSIVE SumOver(_, _, _)
SumOver(sc, users, k) ==
    IF k > Len(users) THEN 0
    ELSE ActiveModifiers(sc, users[k]) + SumOver(sc, users, k + 1)

\* CopyData with the object left on the data block it shares
CopyDataKeepsBlock(sc, ob) == sc

\* ob.data = ob.data.copy(): a new data block with the same content
CopyData(sc, ob) ==
    [sc EXCEPT !.ndata = @ + 1,
               !.geo[sc.ndata + 1] = sc.geo[sc.data[ob]],
               !.data[ob] = sc.ndata + 1]

\* SingleUser with the copy made before the data block is recorded, so
\* that the object's own copy is what shared_data keeps
SingleUserRecordsCopy(st, ob) ==
    LET sc == st.sc
        d == sc.data[ob]
    IN  IF d # 0 /\ Users(sc, d) > 1
        THEN LET users == InOrder({user \in Obj : sc.data[user] = d}, 1)
                 modifiers == SumOver(sc, users, 1)
                 copied == CopyData(sc, ob)
                 st1 == IF sc.type[ob] \in GeometryTypes /\ modifiers = 0
                        THEN [st EXCEPT !.shared_data =
                                 [n \in DOMAIN @ \cup {ob} |->
                                     IF n = ob THEN copied.data[ob] ELSE @[n]]]
                        ELSE st
             IN  [st1 EXCEPT !.sc = copied]
        ELSE st

\* one turn of the loop of make_single_user_data
SingleUser(st, ob) ==
    LET sc == st.sc
        d == sc.data[ob]
    IN  IF d # 0 /\ Users(sc, d) > 1
        THEN LET users == InOrder({user \in Obj : sc.data[user] = d}, 1)
                 modifiers == SumOver(sc, users, 1)
                 st1 == IF sc.type[ob] \in GeometryTypes /\ modifiers = 0
                        THEN [st EXCEPT !.shared_data =
                                 [n \in DOMAIN @ \cup {ob} |-> IF n = ob THEN d ELSE @[n]]]
                        ELSE st
             IN  [st1 EXCEPT !.sc = CopyData(sc, ob)]
        ELSE st

RECURSIVE SingleUserFrom(_, _)
SingleUserFrom(st, ob) ==
    IF ob > NObj THEN st ELSE SingleUserFrom(SingleUser(st, ob), ob + 1)

\* make_single_user_data()
make_single_user_data(st) == SingleUserFrom(st, 1)

\* the mod.type == 'ARMATURE' test of apply_object_modifiers
BypassModifiers(sc, ob) ==
    \E k \in 1..Len(sc.modifiers[ob]) : sc.modifiers[ob][k].type = "ARMATURE"

\* bpy.ops.object.convert(target='MESH') on the selected objects: a mesh
\* object keeps its data block, which receives the evaluated mesh, and
\* loses its modifiers
ConvertToMesh(sc) ==
    [sc EXCEPT !.modifiers =
        [ob \in Obj |-> IF sc.select[ob] /\ sc.type[ob] = "MESH" THEN <<>> ELSE @[ob]]]

\* apply_object_modifiers()
apply_object_modifiers(sc) ==
    LET s1 == [sc EXCEPT !.select =
                  [ob \in Obj |-> sc.in_view[ob] /\ ~BypassModifiers(sc, ob)]]
    IN  IF s1.convert_poll THEN ConvertToMesh(s1) ELSE s1

\* reset_parent_inverse(ob)
reset_parent_inverse(sc, ob) ==
    IF sc.parent[ob] # 0
    THEN LET mat_world == MatrixWorld(sc, ob)
         IN  [sc EXCEPT !.pinv[ob] = Identity,
                        !.basis[ob] =
                            MatMul(Inverted(MatrixWorld(sc, sc.parent[ob])), mat_world)]
    ELSE sc

\* apply_transforms with the call of transform_apply left out
ApplyTransformsSkipped(sc, ob) == sc

\* apply_transforms(ob)
apply_transforms(sc, ob) == TransformApply(sc, ob, TRUE, TRUE)

\* apply_rotation(ob)
apply_rotation(sc, ob) == TransformApply(sc, ob, TRUE, FALSE)

\* FixRotation with the previous local transform reapplied as it was,
\* without the X+90 rotation
FixRotationNoCompensation(sc, ob) ==
    LET s1 == apply_transforms(sc, ob)
        s2 == reset_parent_inverse(s1, ob)
        mat_original == MatrixLocal(s2, ob)
        s3 == SetMatrixLocal(s2, ob, RotationX(-90))
        s4 == apply_rotation(s3, ob)
    IN  SetMatrixLocal(s4, ob, mat_original)

\* lines 133-147 of fix_object: the rotation fix of one object
FixRotation(sc, ob) ==
    LET s1 == apply_transforms(sc, ob)
        s2 == reset_parent_inverse(s1, ob)
        mat_original == MatrixLocal(s2, ob)
        s3 == SetMatrixLocal(s2, ob, RotationX(-90))
        s4 == apply_rotation(s3, ob)
    IN  SetMatrixLocal(s4, ob, MatMul(mat_original, RotationX(90)))

\* lines 132-151 of fix_object: what is done to ob itself
FixOne(sc, ob, fix_rotation, move_to_center, depth) ==
    IF sc.in_view[ob]
    THEN LET s1 == IF fix_rotation THEN FixRotation(sc, ob) ELSE sc
         IN  IF move_to_center /\ depth = 0
             THEN SetMatrixLocal(s1, ob, Translation(<<0, 0, 0>>))
             ELSE s1
    ELSE sc

\* fix_object(ob, fix_rotation, move_to_center, depth): the scene it leaves,
\* whether it raised, and the objects lines 133-151 were run on.  The
\* recursive call of line 156 passes only depth, so binding fix_rotation
\* and move_to_center raises TypeError at the first child, before the
\* callee runs.
fix_object(sc, ob, fix_rotation, move_to_center, depth) ==
    [sc |-> FixOne(sc, ob, fix_rotation, move_to_center, depth),
     raised |-> Children(sc, ob) # {},
     fixed |-> IF sc.in_view[ob] THEN <<ob>> ELSE <<>>]

\* the loop "for ob in root_objects: fix_object(ob, ...)" from the k-th root
RECURSIVE FixRoots(_, _, _, _, _)
FixRoots(sc, root_objects, k, fix_rotation, move_to_center) ==
    IF k > Len(root_objects) THEN [sc |-> sc, raised |-> FALSE, fixed |-> <<>>]
    ELSE LET r == fix_object(sc, root_objects[k], fix_rotation, move_to_center, 0)
         IN  IF r.raised THEN r
             ELSE [FixRoots(r.sc, root_objects, k + 1, fix_rotation, move_to_center)
                      EXCEPT !.fixed = r.fixed \o @]

\* root_objects of export(): objects without parent of these types
RootTypes == {"EMPTY", "MESH", "ARMATURE", "OTHER"}
RootObjects(sc) ==
    InOrder({item \in Obj : sc.type[item] \in RootTypes /\ sc.parent[item] = 0}, 1)


---------------------------------------------------------------------------
(* State.                                                                  *)

VARIABLES
    scene,                 \* the host scene
    props,                 \* the operator's properties (FBXExportTools, lines 294-331)
    shared_data,           \* ledger: object name -> the data block it shared
    hidden_collections,    \* ledger: layer collections whose hide_viewport was cleared
    hidden_objects,        \* ledger: objects shown with hide_set(False)
    disabled_collections,  \* ledger: layer collections whose collection.hide_viewport was cleared
    disabled_objects,      \* ledger: objects whose hide_viewport was cleared
    selection,             \* export()'s local: bpy.context.selected_objects at entry
    undo_stack,            \* the scenes pushed with bpy.ops.ed.undo_push
    pc,                    \* the statement of export() that runs next
    idx,                   \* position of the loop over selection (line 227)
    entry,                 \* the scene when export() was entered
    calls,                 \* the calls of bpy.ops.export_scene.fbx made by this run
    printed,               \* what this run printed on leaving the try block (lines 262-265)
    returned,              \* what export() returned to execute(), once it has
    uncaught               \* the exception that left export() for execute(), if one did

vars == <<scene, props, shared_data, hidden_collections, hidden_objects,
          disabled_collections, disabled_objects, selection, undo_stack,
          pc, idx, entry, calls, printed, returned, uncaught>>

ledger == <<shared_data, hidden_collections, hidden_objects,
            disabled_collections, disabled_objects>>

\* the scene and the ledger as the record the add-on's functions work on
State ==
    [sc |-> scene, shared_data |-> shared_data,
     hidden_collections |-> hidden_collections, hidden_objects |-> hidden_objects,
     disabled_collections |-> disabled_collections, disabled_objects |-> disabled_objects]

\* the empty dict()
EmptyDict == [n \in {} |-> 0]

---------------------------------------------------------------------------
(* Scenes and properties export() is run on.                               *)

\* a scene of NObj unrelated visible mesh objects at the origin, each with
\* its own mesh, in a view layer whose collections are all shown; the
\* first object is the active one (active is 0 when no object is)
DefaultScene ==
    [type |-> [o \in Obj |-> "MESH"],
     parent |-> [o \in Obj |-> 0],
     in_view |-> [o \in Obj |-> TRUE],
     basis |-> [o \in Obj |-> Identity],
     pinv |-> [o \in Obj |-> Identity],
     data |-> [o \in Obj |-> o],
     modifiers |-> [o \in Obj |-> <<>>],
     hide |-> [o \in Obj |-> FALSE],
     hide_viewport |-> [o \in Obj |-> FALSE],
     select |-> [o \in Obj |-> TRUE],
     geo |-> [d \in DataId |-> I3],
     ndata |-> NObj,
     exclude |-> [c \in Col |-> FALSE],
     col_hide |-> [c \in Col |-> FALSE],
     col_disable |-> [c \in Col |-> FALSE],
     convert_poll |-> TRUE,
     active |-> 1]

\* only a visible object of the view layer can be selected
Visible(sc, o) == sc.in_view[o] /\ ~sc.hide[o] /\ ~sc.hide_viewport[o]
SelectVisible(sc) == [sc EXCEPT !.select = [o \in Obj |-> Visible(sc, o)]]

\* layer-collection flags: N none, H hide_viewport, D collection.hide_viewport,
\* HD both, X excluded with both flags set
ColFlagChoices ==
    {f \in [Col -> {"N", "H", "D", "HD", "X"}] :
        /\ f[0] \in {"N", "HD", "X"}
        /\ \A c \in Col \ {0} : f[c] \in {"N", "H", "D", "X"}}

CollectionScenes ==
    {[DefaultScene EXCEPT
        !.exclude = [c \in Col |-> f[c] = "X"],
        !.col_hide = [c \in Col |-> f[c] \in {"H", "HD", "X"}],
        !.col_disable = [c \in Col |-> f[c] \in {"D", "HD", "X"}]] : f \in ColFlagChoices}

\* object flags: N none, H hidden (hide_get), D disabled (hide_viewport),
\* O outside the view layer with both flags set; no object is active, or
\* one of the first two that the view layer holds
VisibilityScenes ==
    UNION {{SelectVisible([DefaultScene EXCEPT
                !.parent = [o \in Obj |-> IF o = 2 /\ child THEN 1 ELSE 0],
                !.in_view = [o \in Obj |-> f[o] # "O"],
                !.hide = [o \in Obj |-> f[o] \in {"H", "O"}],
                !.hide_viewport = [o \in Obj |-> f[o] \in {"D", "O"}],
                !.active = a]) :
                    a \in {0} \cup {o \in {1, 2} : f[o] # "O"}, child \in BOOLEAN} :
            f \in [Obj -> {"N", "H", "D", "O"}]}

\* modifier stacks
Subsurf == [type |-> "SUBSURF", show_viewport |-> TRUE]
SubsurfOff == [type |-> "SUBSURF", show_viewport |-> FALSE]
Armature == [type |-> "ARMATURE", show_viewport |-> TRUE]
ModifierChoices ==
    {m \in [Obj -> {<<>>, <<Subsurf>>, <<SubsurfOff>>, <<Armature>>}] :
        \A o \in Obj : o > 2 => m[o] \in {<<>>, <<Subsurf>>}}

\* which objects use one data block: each object uses its own mesh or the
\* mesh of the object before it
SharingChoices == {d \in [Obj -> Obj] : \A o \in Obj : d[o] = o \/ (o > 1 /\ d[o] = d[o - 1])}

SharingScenes ==
    {SelectVisible([DefaultScene EXCEPT
        !.data = d,
        !.modifiers = m,
        !.in_view = [o \in Obj |-> o < NObj \/ last_in_view]]) :
            d \in SharingChoices, m \in ModifierChoices, last_in_view \in BOOLEAN}

\* object types: the first two objects of any type, sharing their data or not
TypeScenes ==
    {[DefaultScene EXCEPT
        !.type = [o \in Obj |-> IF o = 1 THEN t1 ELSE IF o = 2 THEN t2 ELSE "MESH"],
        !.data = [o \in Obj |->
                    IF o = 1 THEN (IF t1 = "EMPTY" THEN 0 ELSE 1)
                    ELSE IF o = 2 THEN (IF t2 = "EMPTY" THEN 0
                                        ELSE IF share /\ t1 = t2 THEN 1 ELSE 2)
                    ELSE o],
        !.convert_poll = poll] :
            t1 \in {"EMPTY", "MESH", "ARMATURE", "CAMERA"},
            t2 \in {"EMPTY", "MESH", "ARMATURE", "CAMERA"},
            share \in BOOLEAN, poll \in BOOLEAN}

\* hierarchies and transforms: object 1 a root (mesh or empty) with any of
\* six poses, object 2 its child or not, object 3 a child of 2 or not
RootPoses ==
    {MatMul(Translation(t), r) :
        t \in {<<0, 0, 0>>, <<1, 2, 3>>},
        r \in {Identity, RotationX(90), RotationZ(90)}}
ChildPoses == {Identity, MatMul(Translation(<<2, 0, 1>>), RotationZ(90))}
ParentInverses == {Identity, Inverted(MatMul(Translation(<<0, 1, 0>>), RotationX(90)))}

TransformScenes ==
    {[DefaultScene EXCEPT
        !.type[1] = t1,
        !.data[1] = IF t1 = "EMPTY" THEN 0 ELSE 1,
        !.parent = [o \in Obj |-> IF o = 2 /\ depth >= 1 THEN 1
                                  ELSE IF o = 3 /\ depth >= 2 THEN 2 ELSE 0],
        !.basis = [o \in Obj |-> IF o = 1 THEN b1 ELSE IF o = 2 THEN b2 ELSE Identity],
        !.pinv[2] = IF depth >= 1 THEN p2 ELSE Identity] :
            t1 \in {"MESH", "EMPTY"}, depth \in 0..2,
            b1 \in RootPoses, b2 \in ChildPoses, p2 \in ParentInverses}

\* selections: any set of objects selected, the first object active or none
SelectionScenes ==
    {[DefaultScene EXCEPT !.select = [o \in Obj |-> o \in S], !.active = a] :
        S \in SUBSET Obj, a \in {0, 1}}

\* the operator's properties; filepath is a list of path components.
\* passed is the set of values drawn for active_collection and
\* selected_objects, which export() only passes on or ignores.
Props(paths, passed) ==
    [filepath : paths, active_collection : passed, selected_objects : passed,
     move_to_center : BOOLEAN, export_individual_file : BOOLEAN,
     fix_unity_rotation : BOOLEAN]

\* absolute output paths, as the list of their components
FilePaths == {<<"out", "scene.fbx">>, <<"out", "unity", "level.fbx">>}

\* the defaults of the two properties are False and True (lines 306, 312);
\* they are drawn freely with the scenes that vary the selection
Init ==
    /\ \/ /\ scene \in CollectionScenes \cup VisibilityScenes \cup SharingScenes
                           \cup TypeScenes \cup TransformScenes
          /\ props \in {p \in Props({<<"out", "scene.fbx">>}, BOOLEAN) :
                            ~p.active_collection /\ p.selected_objects}
       \/ /\ scene \in SelectionScenes
          /\ props \in Props(FilePaths, BOOLEAN)
    /\ shared_data = EmptyDict
    /\ hidden_collections = <<>>
    /\ hidden_objects = <<>>
    /\ disabled_collections = <<>>
    /\ disabled_objects = <<>>
    /\ selection = <<>>
    /\ undo_stack = <<>>
    /\ pc = "idle"
    /\ idx = 0
    /\ entry = scene
    /\ calls = <<>>
    /\ printed = <<>>
    /\ returned = <<>>
    /\ uncaught = <<>>

---------------------------------------------------------------------------
(* export(), statement by statement.  FBXExportTools.execute calls it with *)
(* the operator's properties.                                              *)

\* bpy.context.selected_objects
SelectedObjects(sc) == InOrder({o \in Obj : sc.select[o] /\ Visible(sc, o)}, 1)

\* Normalize without the reset of lines 176-180: the lists go on from what
\* the module-level ledger holds
NormalizeKeepsLedger(sc) ==
    unhide_objects(unhide_collections([State EXCEPT !.sc = sc], 0))

\* lines 167-189: the undo push, the ledger reset, the selection snapshot
\* and the two unhide calls
Normalize(sc) ==
    unhide_objects(
        unhide_collections(
            [sc |-> sc, shared_data |-> EmptyDict,
             hidden_collections |-> <<>>, hidden_objects |-> <<>>,
             disabled_collections |-> <<>>, disabled_objects |-> <<>>], 0))

\* line 185: the poll of bpy.ops.object.mode_set, which needs an active
\* object that is not disabled in viewports; the call raises RuntimeError
\* when the poll fails
ModeSetPoll(sc) == sc.active # 0 /\ ~sc.hide_viewport[sc.active]

\* execute() (line 356) calling export(), lines 167-189.  Line 185 is
\* outside the try block: when it raises, export() ends there with the undo
\* step pushed and the ledger reset, and the exception goes to execute().
Execute ==
    /\ pc = "idle"
    /\ undo_stack' = <<scene>>
    /\ selection' = SelectedObjects(scene)
    /\ entry' = scene
    /\ calls' = <<>>
    /\ printed' = <<>>
    /\ returned' = <<>>
    /\ idx' = 0
    /\ IF ModeSetPoll(scene)
       THEN /\ LET st == Normalize(scene)
               IN  /\ scene' = st.sc
                   /\ shared_data' = st.shared_data
                   /\ hidden_collections' = st.hidden_collections
                   /\ hidden_objects' = st.hidden_objects
                   /\ disabled_collections' = st.disabled_collections
                   /\ disabled_objects' = st.disabled_objects
            /\ uncaught' = <<>>
            /\ pc' = "make_single_user_data"
       ELSE /\ scene' = scene
            /\ shared_data' = EmptyDict
            /\ hidden_collections' = <<>>
            /\ hidden_objects' = <<>>
            /\ disabled_collections' = <<>>
            /\ disabled_objects' = <<>>
            /\ uncaught' = <<"RuntimeError">>
            /\ pc' = "idle"
    /\ UNCHANGED props

\* line 192
MakeSingleUserData ==
    /\ pc = "make_single_user_data"
    /\ LET st == make_single_user_data(State)
       IN  /\ scene' = st.sc
           /\ shared_data' = st.shared_data
    /\ pc' = "apply_object_modifiers"
    /\ UNCHANGED <<props, returned, uncaught, hidden_collections, hidden_objects, disabled_collections,
                   disabled_objects, selection, undo_stack, idx, entry, calls, printed>>

\* line 195
ApplyObjectModifiers ==
    /\ pc = "apply_object_modifiers"
    /\ scene' = apply_object_modifiers(scene)
    /\ pc' = "fix_objects"
    /\ UNCHANGED <<props, returned, uncaught, ledger, selection, undo_stack, idx, entry, calls, printed>>

\* str(e) of the TypeError that the call of line 156 raises
MissingArguments ==
    "fix_object() missing 2 required positional arguments: 'fix_rotation' and 'move_to_center'"

\* str(e) of the exception that bpy.ops.export_scene.fbx raises
ExporterError == "export_scene.fbx raised"

\* lines 261-263: print(e), then print("File not saved.")
PrintFailure(out, e) == out \o <<e, "File not saved.">>

\* lines 199-201, and lines 261-263 when fix_object raises
FixObjects ==
    /\ pc = "fix_objects"
    /\ LET r == FixRoots(scene, RootObjects(entry), 1,
                         props.fix_unity_rotation, props.move_to_center)
       IN  /\ scene' = r.sc
           /\ IF r.raised
              THEN /\ printed' = PrintFailure(printed, MissingArguments)
                   /\ pc' = "restore_scene"
              ELSE /\ printed' = printed
                   /\ pc' = "restore_shared_data"
    /\ UNCHANGED <<props, returned, uncaught, ledger, selection, undo_stack, idx, entry, calls>>

\* RestoreData with the loop over shared_data left out
RestoreDataSkipped(sc, shared) == sc

\* lines 204-205: bpy.data.objects[item].data = shared_data[item]
RestoreData(sc, shared) ==
    [sc EXCEPT !.data = [o \in Obj |-> IF o \in DOMAIN shared THEN shared[o] ELSE @[o]]]

\* lines 204-208
RestoreSharedData ==
    /\ pc = "restore_shared_data"
    /\ scene' = RestoreData(scene, shared_data)
    /\ pc' = "restore_visibility"
    /\ UNCHANGED <<props, returned, uncaught, ledger, selection, undo_stack, idx, entry, calls, printed>>

\* whether x is an item of the list s
InList(s, x) == \E k \in 1..Len(s) : s[k] = x

\* RestoreFlags with the two loops over the collections left out
RestoreFlagsObjectsOnly(sc, hid_obs, dis_obs, hid_cols, dis_cols) ==
    [sc EXCEPT
        !.hide = [o \in Obj |-> IF InList(hid_obs, o) THEN TRUE ELSE @[o]],
        !.select = [o \in Obj |->
                      IF InList(hid_obs, o) \/ InList(dis_obs, o) THEN FALSE ELSE @[o]],
        !.hide_viewport = [o \in Obj |-> IF InList(dis_obs, o) THEN TRUE ELSE @[o]]]

\* lines 211-220: the four restore loops (an object that is hidden or
\* disabled again is no longer selected)
RestoreFlags(sc, hid_obs, dis_obs, hid_cols, dis_cols) ==
    [sc EXCEPT
        !.hide = [o \in Obj |-> IF InList(hid_obs, o) THEN TRUE ELSE @[o]],
        !.select = [o \in Obj |->
                      IF InList(hid_obs, o) \/ InList(dis_obs, o) THEN FALSE ELSE @[o]],
        !.hide_viewport = [o \in Obj |-> IF InList(dis_obs, o) THEN TRUE ELSE @[o]],
        !.col_hide = [c \in Col |-> IF InList(hid_cols, c) THEN TRUE ELSE @[c]],
        !.col_disable = [c \in Col |-> IF InList(dis_cols, c) THEN TRUE ELSE @[c]]]

\* lines 211-220
RestoreVisibility ==
    /\ pc = "restore_visibility"
    /\ scene' = RestoreFlags(scene, hidden_objects, disabled_objects,
                             hidden_collections, disabled_collections)
    /\ pc' = "export"
    /\ idx' = 1
    /\ UNCHANGED <<props, returned, uncaught, ledger, selection, undo_stack, entry, calls, printed>>

\* dir, filename = os.path.split(filepath)
PathSplit(filepath) ==
    [dir |-> SubSeq(filepath, 1, Len(filepath) - 1), filename |-> filepath[Len(filepath)]]

\* dir + "/" + ob.name + ".fbx"
IndividualPath(filepath, ob) == Append(PathSplit(filepath).dir, Name(ob) \o ".fbx")

\* FbxCallWith with use_selection taken from the selected_objects property
FbxCallWithSelectionFlag(p, sc, filepath, ok) ==
    [filepath |-> filepath,
     use_selection |-> p.selected_objects,
     use_active_collection |-> p.active_collection,
     selected |-> {o \in Obj : sc.select[o]},
     raised |-> ~ok]

\* one call of bpy.ops.export_scene.fbx made by export() run with the
\* properties p, as the exporter sees it
FbxCallWith(p, sc, filepath, ok) ==
    [filepath |-> filepath,
     use_selection |-> TRUE,
     use_active_collection |-> p.active_collection,
     selected |-> {o \in Obj : sc.select[o]},
     raised |-> ~ok]

\* the call made by this run
FbxCall(sc, filepath, ok) == FbxCallWith(props, sc, filepath, ok)

\* select_all(action='DESELECT') and ob.select_set(True) for the objects of a list
SelectOnly(sc, obs) == [sc EXCEPT !.select = [o \in Obj |-> InList(obs, o)]]

\* lines 227-241: one turn of the loop over selection; the exporter
\* succeeds (ok) or raises, which ends the try block (lines 261-263)
ExportIndividual(ok) ==
    /\ pc = "export"
    /\ props.export_individual_file
    /\ idx <= Len(selection)
    /\ LET ob == selection[idx]
           sc == SelectOnly(scene, <<ob>>)
       IN  /\ scene' = sc
           /\ calls' = Append(calls, FbxCall(sc, IndividualPath(props.filepath, ob), ok))
    /\ IF ok
       THEN /\ idx' = idx + 1
            /\ UNCHANGED <<pc, printed>>
       ELSE /\ printed' = PrintFailure(printed, ExporterError)
            /\ pc' = "restore_scene"
            /\ idx' = idx
    /\ UNCHANGED <<props, returned, uncaught, ledger, selection, undo_stack, entry>>

\* the loop over selection is over: line 265
ExportIndividualDone ==
    /\ pc = "export"
    /\ props.export_individual_file
    /\ idx > Len(selection)
    /\ printed' = Append(printed, "FBX file for Unity saved.")
    /\ pc' = "restore_scene"
    /\ UNCHANGED <<scene, props, returned, uncaught, ledger, selection, undo_stack, idx, entry, calls>>

\* lines 245-259, then line 265 or lines 261-263
ExportScene(ok) ==
    /\ pc = "export"
    /\ ~props.export_individual_file
    /\ LET sc == SelectOnly(scene, selection)
       IN  /\ scene' = sc
           /\ calls' = Append(calls, FbxCall(sc, props.filepath, ok))
    /\ printed' = IF ok THEN Append(printed, "FBX file for Unity saved.")
                        ELSE PrintFailure(printed, ExporterError)
    /\ pc' = "restore_scene"
    /\ UNCHANGED <<props, returned, uncaught, ledger, selection, undo_stack, idx, entry>>

\* UndoScene with an undo that steps back to the scene just pushed
UndoKeepsScene(sc, stack) == sc

\* lines 268-272: undo_push, undo back to the scene pushed at line 174,
\* undo_push, return {'FINISHED'}
UndoScene(sc, stack) == stack[Len(stack)]

RestoreScene ==
    /\ pc = "restore_scene"
    /\ scene' = UndoScene(scene, undo_stack)
    /\ undo_stack' = <<scene'>>
    /\ returned' = <<{"FINISHED"}>>
    /\ pc' = "idle"
    /\ UNCHANGED <<props, uncaught, ledger, selection, idx, entry, calls, printed>>

Next ==
    \/ Execute
    \/ MakeSingleUserData
    \/ ApplyObjectModifiers
    \/ FixObjects
    \/ RestoreSharedData
    \/ RestoreVisibility
    \/ \E ok \in BOOLEAN : ExportIndividual(ok)
    \/ ExportIndividualDone
    \/ \E ok \in BOOLEAN : ExportScene(ok)
    \/ RestoreScene

Spec == Init /\ [][Next]_vars

\* export() run with every combination of the operator's properties, on the
\* scenes that vary the selection and on those that vary the hierarchy
InitAllProperties ==
    /\ scene \in SelectionScenes \cup TransformScenes
    /\ props \in Props(FilePaths, BOOLEAN)
    /\ shared_data = EmptyDict
    /\ hidden_collections = <<>>
    /\ hidden_objects = <<>>
    /\ disabled_collections = <<>>
    /\ disabled_objects = <<>>
    /\ selection = <<>>
    /\ undo_stack = <<>>
    /\ pc = "idle"
    /\ idx = 0
    /\ entry = scene
    /\ calls = <<>>
    /\ printed = <<>>
    /\ returned = <<>>
    /\ uncaught = <<>>

SpecAllProperties == InitAllProperties /\ [][Next]_vars


---------------------------------------------------------------------------
(* Properties.                                                             *)

Saved == "FBX file for Unity saved."
NotSaved == "File not saved."

\* the last call of the export primitive raised
PrimitiveRaised == calls # <<>> /\ calls[Len(calls)].raised

\* the visibility flags of objects and layer collections agree
SameFlags(a, b) ==
    /\ a.hide = b.hide
    /\ a.hide_viewport = b.hide_viewport
    /\ a.col_hide = b.col_hide
    /\ a.col_disable = b.col_disable

\* transforms, data references and flags agree
SameScene(a, b) ==
    /\ SameFlags(a, b)
    /\ a.basis = b.basis
    /\ a.pinv = b.pinv
    /\ \A o \in Obj : MatrixLocal(a, o) = MatrixLocal(b, o)
    /\ a.data = b.data

\* every entry of the ledger is reversed in the scene sc
Reversed(sc) ==
    /\ \A k \in 1..Len(hidden_objects) : sc.hide[hidden_objects[k]]
    /\ \A k \in 1..Len(disabled_objects) : sc.hide_viewport[disabled_objects[k]]
    /\ \A k \in 1..Len(hidden_collections) : sc.col_hide[hidden_collections[k]]
    /\ \A k \in 1..Len(disabled_collections) : sc.col_disable[disabled_collections[k]]
    /\ \A n \in DOMAIN shared_data : sc.data[n] = shared_data[n]

LedgerEmpty ==
    /\ DOMAIN shared_data = {}
    /\ hidden_objects = <<>>
    /\ disabled_objects = <<>>
    /\ hidden_collections = <<>>
    /\ disabled_collections = <<>>

\* C1: when the export primitive has raised, export() goes on to its last
\* statements (lines 268-272) and returns, and at return every object's
\* local transform, parent inverse, data reference and flags and every
\* collection's flags are those of the scene at entry.
C1_FailedExportLeavesSceneAsAtEntry ==
    PrimitiveRaised =>
        \/ pc = "restore_scene" /\ ENABLED RestoreScene
        \/ pc = "idle" /\ SameScene(scene, entry)

\* a run that moved and rotated a posed root has returned after the primitive raised
C1_Witness ==
    /\ pc = "idle"
    /\ PrimitiveRaised
    /\ props.fix_unity_rotation
    /\ props.move_to_center
    /\ \E o \in Obj : entry.basis[o] # Identity

\* C2: on every path to the end of export() (the statements after the try
\* block), every entry of the ledger has been reversed by the restoration
\* loops of lines 204-220.
C2_LedgerReversedOnEveryPath ==
    pc = "restore_scene" => Reversed(scene)

\* C3: whenever the export primitive is about to be called, the flags of
\* all objects and collections are those at entry and every object named in
\* shared_data references the data block recorded for it.
C3_RestoredBeforeExport ==
    pc = "export" =>
        /\ SameFlags(scene, entry)
        /\ \A n \in DOMAIN shared_data : scene.data[n] = shared_data[n]

\* a second call of the primitive is due, in a run that recorded hidden and
\* disabled objects
C3_Witness ==
    /\ pc = "export"
    /\ calls # <<>>
    /\ hidden_objects # <<>>
    /\ disabled_objects # <<>>

\* C4, as claimed: after a successful run the five containers of the
\* ledger are empty.
C4_LedgerEmptyAfterSuccess ==
    (pc = "idle" /\ printed = <<Saved>>) => LedgerEmpty

\* what a run started on the scene sc records in the ledger
Recorded(sc) == make_single_user_data(Normalize(sc))

\* C4, amended: once a run has printed its success, every entry of the
\* ledger is reversed in the scene; after export() has returned the five
\* containers still hold what this run recorded (they are emptied only by
\* lines 176-180 of the next run).
C4_LedgerReversedAfterSuccess ==
    printed = <<Saved>> =>
        /\ Reversed(scene)
        /\ pc = "idle" =>
            LET recorded == Recorded(entry)
            IN  /\ shared_data = recorded.shared_data
                /\ hidden_objects = recorded.hidden_objects
                /\ disabled_objects = recorded.disabled_objects
                /\ hidden_collections = recorded.hidden_collections
                /\ disabled_collections = recorded.disabled_collections

\* a successful run that recorded collections of both kinds has returned
C4_Witness ==
    /\ pc = "idle"
    /\ printed = <<Saved>>
    /\ hidden_collections # <<>>
    /\ disabled_collections # <<>>

\* the Visibility Normalizer followed by the four restore loops
NormalizeThenRestore(sc) ==
    LET st == Normalize(sc)
    IN  RestoreFlags(st.sc, st.hidden_objects, st.disabled_objects,
                     st.hidden_collections, st.disabled_collections)

\* C5: for the flags S of the scene a run is entered with, the Normalizer
\* followed by the restore loops gives back S in every object's hidden and
\* disabled flag and every collection's two flags.
C5_VisibilityRoundTrip ==
    SameFlags(NormalizeThenRestore(entry), entry)

\* both have run on a scene with hidden, disabled and excluded collections
C5_Witness ==
    /\ pc = "export"
    /\ calls = <<>>
    /\ hidden_collections # <<>>
    /\ disabled_collections # <<>>
    /\ \E c \in Col : entry.exclude[c] /\ entry.col_hide[c]

\* the parent of a layer collection below the root
ColParent(c) == (c - 1) \div 2

\* the collection is excluded or lies below an excluded collection
RECURSIVE UnderExclusion(_, _)
UnderExclusion(sc, c) ==
    sc.exclude[c] \/ (c # 0 /\ UnderExclusion(sc, ColParent(c)))

\* C6: a collection that is excluded or has an excluded ancestor keeps both
\* its flags and is in neither collection list of the ledger.
C6_ExcludedBranchesUntouched ==
    \A c \in Col :
        UnderExclusion(entry, c) =>
            /\ scene.col_hide[c] = entry.col_hide[c]
            /\ scene.col_disable[c] = entry.col_disable[c]
            /\ ~InList(hidden_collections, c)
            /\ ~InList(disabled_collections, c)

\* the Normalizer has run, recorded some collection, and left a hidden
\* collection below an excluded one
C6_Witness ==
    /\ pc = "make_single_user_data"
    /\ hidden_collections # <<>>
    /\ \E c \in Col : /\ ~entry.exclude[c]
                      /\ UnderExclusion(entry, c)
                      /\ entry.col_hide[c]

\* the objects that use data block d at entry
Sharers(d) == {o \in Obj : entry.data[o] = d}

\* two or more geometry-bearing objects use d at entry
SharedGeometry(d) ==
    /\ Cardinality(Sharers(d)) >= 2
    /\ \A o \in Sharers(d) : entry.type[o] \in GeometryTypes

\* C7: when the export primitive is about to read the scene, the objects
\* of every group that shared one data block at entry with no active
\* modifier among them all reference one data block again.
C7_SharingRestoredWhenSafe ==
    pc = "export" =>
        \A d \in DataId :
            (SharedGeometry(d) /\ \A o \in Sharers(d) : ActiveModifiers(entry, o) = 0) =>
                \A a, b \in Sharers(d) : scene.data[a] = scene.data[b]

\* three objects without active modifiers shared a mesh and the rotation
\* fix has run on them
C7_Witness ==
    /\ pc = "export"
    /\ props.fix_unity_rotation
    /\ \E d \in DataId :
        /\ Cardinality(Sharers(d)) >= 3
        /\ SharedGeometry(d)
        /\ \A o \in Sharers(d) : ActiveModifiers(entry, o) = 0
        /\ \E o \in Sharers(d) : entry.modifiers[o] # <<>>

\* C8: once the shared data has been restored, no object of a group that
\* shared one data block at entry with an active modifier among them is in
\* shared_data, and the objects of the group hold pairwise distinct data.
C8_SharingAbandonedWhenUnsafe ==
    pc \in {"restore_visibility", "export"} =>
        \A d \in DataId :
            (SharedGeometry(d) /\ \E o \in Sharers(d) : ActiveModifiers(entry, o) > 0) =>
                /\ \A o \in Sharers(d) : o \notin DOMAIN shared_data
                /\ \A a, b \in Sharers(d) : a # b => scene.data[a] # scene.data[b]

\* C9: a run that has returned called the export primitive once per object
\* of the selection snapshot, that object alone selected and the path
\* <directory of filepath>/<name>.fbx, in individual-file mode, and
\* otherwise exactly once with filepath and the snapshot selected.
C9_ExportCalledAsTheModeSays ==
    (pc = "idle" /\ printed # <<>>) =>
        IF props.export_individual_file
        THEN /\ Len(calls) = Len(selection)
             /\ \A k \in 1..Len(calls) :
                  /\ calls[k].selected = {selection[k]}
                  /\ calls[k].filepath =
                        SubSeq(props.filepath, 1, Len(props.filepath) - 1)
                            \o <<Name(selection[k]) \o ".fbx">>
        ELSE /\ Len(calls) = 1
             /\ calls[1].filepath = props.filepath
             /\ calls[1].selected = {selection[k] : k \in 1..Len(selection)}

\* the loop over the roots (lines 199-201) is over, normally or by raising
RebaserRan ==
    \/ pc = "restore_shared_data"
    \/ pc = "restore_scene" /\ calls = <<>> /\ printed = PrintFailure(<<>>, MissingArguments)

\* C10: with move_to_center, after the loop over the roots a root Empty
\* with one Mesh child, both in the view layer, has a local transform that
\* is the translation to the origin, and the child has the world
\* transform it had at entry.
C10_RootToOriginChildKeepsWorld ==
    (RebaserRan /\ props.move_to_center) =>
        \A r, c \in Obj :
            ( /\ entry.type[r] = "EMPTY"
              /\ entry.parent[r] = 0
              /\ Children(entry, r) = {c}
              /\ entry.type[c] = "MESH"
              /\ entry.in_view[r]
              /\ entry.in_view[c] ) =>
                /\ MatrixLocal(scene, r) = Translation(<<0, 0, 0>>)
                /\ MatrixWorld(scene, c) = MatrixWorld(entry, c)

\* the root of the hierarchy o belongs to
RECURSIVE RootOf(_, _)
RootOf(sc, o) == IF sc.parent[o] = 0 THEN o ELSE RootOf(sc, sc.parent[o])

\* o belongs to the forest below root_objects
InForest(o) == InList(RootObjects(entry), RootOf(entry, o))

\* the roots the loop of lines 199-201 has called fix_object on: every root
\* up to and including the first one that has a child
Reached(o) ==
    /\ InList(RootObjects(entry), o)
    /\ \A r \in Obj : (InList(RootObjects(entry), r) /\ r < o) => Children(entry, r) = {}

\* the objects lines 133-151 have been run on
Processed(o) == Reached(o) /\ entry.in_view[o]

\* o has a data block that transform_apply rewrites
HasGeometry(o) == entry.type[o] \in ApplyTypes /\ entry.data[o] # 0

\* the geometry of o in the scene sc
Geometry(sc, o) == sc.geo[sc.data[o]]

\* C11, as claimed: with the rotation fix and without move_to_center,
\* after the loop over the roots every in-view object of the forest has the
\* world transform it had before.
C11_WorldTransformKept ==
    (RebaserRan /\ props.fix_unity_rotation /\ ~props.move_to_center) =>
        \A o \in Obj :
            (entry.in_view[o] /\ InForest(o)) =>
                MatrixWorld(scene, o) = MatrixWorld(entry, o)

\* C11, amended: with the rotation fix and without move_to_center, after
\* the loop over the roots every in-view object of the forest is at the
\* world position it had before.  A processed object has the world
\* transform Translation(that position) @ Rotation(+90, X), not the one it
\* had, and its world transform composed with its geometry is what it was
\* before: it looks the same.  An object that was not processed (every
\* descendant, since line 156 raises) has the world transform it had.
C11_PoseKeptThroughGeometry ==
    (RebaserRan /\ props.fix_unity_rotation /\ ~props.move_to_center) =>
        \A o \in Obj :
            (entry.in_view[o] /\ InForest(o)) =>
                LET W == MatrixWorld(entry, o)
                    now == MatrixWorld(scene, o)
                IN  /\ now.t = W.t
                    /\ IF Processed(o)
                       THEN /\ now = MatMul(Translation(W.t), RotationX(90))
                            /\ HasGeometry(o) =>
                                 Mul3(now.l, Geometry(scene, o)) = Mul3(W.l, Geometry(entry, o))
                       ELSE now = W

\* the rotation fix has run on a mesh root that was moved and turned about
\* Z and has a child in the view layer
C11_Witness ==
    /\ RebaserRan
    /\ props.fix_unity_rotation
    /\ ~props.move_to_center
    /\ \E o \in Obj :
        /\ Processed(o)
        /\ entry.type[o] = "MESH"
        /\ entry.basis[o] = MatMul(Translation(<<1, 2, 3>>), RotationZ(90))
        /\ \E c \in Children(entry, o) : entry.in_view[c]

\* C12, as claimed: with the rotation fix, the geometry of a processed
\* object is its geometry before, rotated by -90 degrees about X and by
\* nothing else.
C12_GeometryRotatedExactly ==
    (RebaserRan /\ props.fix_unity_rotation) =>
        \A o \in Obj :
            (Processed(o) /\ HasGeometry(o)) =>
                Geometry(scene, o) = Mul3(RotationX(-90).l, Geometry(entry, o))

\* C12, amended: with the rotation fix, the geometry of a processed object
\* is its geometry before with the object's own rotation and scale applied
\* to it (apply_transforms, line 134) and then rotated by -90 degrees about
\* X, whatever local transform the object ends with; it is rotated by
\* exactly -90 degrees about X only when the object had no rotation and
\* unit scale.
C12_GeometryTakesOwnRotationThenFix ==
    (RebaserRan /\ props.fix_unity_rotation) =>
        \A o \in Obj :
            (Processed(o) /\ HasGeometry(o)) =>
                Geometry(scene, o) =
                    Mul3(RotationX(-90).l, Mul3(entry.basis[o].l, Geometry(entry, o)))

\* the rotation fix has run on a root with geometry that was turned about
\* Z, and the root was then moved to the origin
C12_Witness ==
    /\ RebaserRan
    /\ props.fix_unity_rotation
    /\ props.move_to_center
    /\ \E o \in Obj :
        /\ Processed(o)
        /\ HasGeometry(o)
        /\ entry.basis[o].l = RotationZ(90).l
        /\ scene.basis[o] = Identity

\* export() has returned
Returned == pc = "idle" /\ returned # <<>>

\* export() has ended at line 185 by the RuntimeError of mode_set
ModeSetRaised == pc = "idle" /\ uncaught # <<>>

\* an invocation of the operation is over
Ended == Returned \/ ModeSetRaised

\* the loop over the roots meets a root that has a child (line 156 raises)
RebaseRaises ==
    \E o \in Obj : InList(RootObjects(entry), o) /\ Children(entry, o) # {}

\* the try block got to the export, every call of the export primitive
\* that was due has been made, and none raised
ExportCompleted ==
    /\ ModeSetPoll(entry)
    /\ ~RebaseRaises
    /\ Len(calls) = (IF props.export_individual_file THEN Len(selection) ELSE 1)
    /\ \A k \in 1..Len(calls) : ~calls[k].raised

\* how many times x occurs in the list s
Occurrences(s, x) == Cardinality({k \in 1..Len(s) : s[k] = x})

\* C13: an invocation that is over has printed exactly one of the two
\* outcome lines, "File not saved." when the export primitive raised and
\* "FBX file for Unity saved." when the export completed; the line printed
\* is what tells the two outcomes apart.
C13_ExactlyOneOutcomeSignal ==
    Ended =>
        /\ Occurrences(printed, Saved) + Occurrences(printed, NotSaved) = 1
        /\ PrimitiveRaised => InList(printed, NotSaved)
        /\ ExportCompleted => InList(printed, Saved)

\* the scene the loop over the roots starts on, for a run entered with sc
BeforeRebase(sc) == apply_object_modifiers(Recorded(sc).sc)

\* C14: when the loop over the roots is over, lines 133-151 have been run
\* exactly once on every in-view object below a root, its children and
\* further descendants included, also below an object that is not in view.
C14_EverySubtreeObjectProcessedOnce ==
    RebaserRan =>
        LET r == FixRoots(BeforeRebase(entry), RootObjects(entry), 1,
                          props.fix_unity_rotation, props.move_to_center)
        IN  /\ r.sc = scene
            /\ \A o \in Obj :
                 (entry.in_view[o] /\ InForest(o)) => Occurrences(r.fixed, o) = 1

\* C15: when unhide_collections(root) and unhide_objects() have run, every
\* layer collection that is neither excluded nor below an excluded one, the
\* root included, has hide_viewport and collection.hide_viewport false, and
\* every object of the view layer is neither hidden nor disabled.
C15_AllShownAfterNormalizer ==
    pc = "make_single_user_data" =>
        /\ \A c \in Col :
             ~UnderExclusion(entry, c) => (~scene.col_hide[c] /\ ~scene.col_disable[c])
        /\ \A o \in Obj :
             entry.in_view[o] => (~scene.hide[o] /\ ~scene.hide_viewport[o])

\* no item occurs twice in the list s
NoDuplicates(s) == \A i, j \in 1..Len(s) : s[i] = s[j] => i = j

\* export() is between the Normalizer and the restore loops
Normalized ==
    pc \in {"make_single_user_data", "apply_object_modifiers", "fix_objects",
            "restore_shared_data", "restore_visibility"}

\* C16: in every state of any sequence of runs, each entry of the four
\* lists names an object of the view layer, or a layer collection outside
\* every excluded branch, whose flag was set when the current run was
\* entered and is clear once the Normalizer has run; no list has a
\* duplicate, so nothing is left of an earlier run.
C16_LedgerSoundAcrossRuns ==
    /\ NoDuplicates(hidden_objects)
    /\ NoDuplicates(disabled_objects)
    /\ NoDuplicates(hidden_collections)
    /\ NoDuplicates(disabled_collections)
    /\ \A k \in 1..Len(hidden_objects) :
         LET o == hidden_objects[k]
         IN  entry.in_view[o] /\ entry.hide[o] /\ (Normalized => ~scene.hide[o])
    /\ \A k \in 1..Len(disabled_objects) :
         LET o == disabled_objects[k]
         IN  entry.in_view[o] /\ entry.hide_viewport[o]
                /\ (Normalized => ~scene.hide_viewport[o])
    /\ \A k \in 1..Len(hidden_collections) :
         LET c == hidden_collections[k]
         IN  ~UnderExclusion(entry, c) /\ entry.col_hide[c]
                /\ (Normalized => ~scene.col_hide[c])
    /\ \A k \in 1..Len(disabled_collections) :
         LET c == disabled_collections[k]
         IN  ~UnderExclusion(entry, c) /\ entry.col_disable[c]
                /\ (Normalized => ~scene.col_disable[c])

\* a run that recorded hidden and disabled objects has returned with the
\* lists still filled, and the next run can be entered
C16_Witness ==
    /\ Returned
    /\ hidden_objects # <<>>
    /\ disabled_objects # <<>>
    /\ ENABLED Execute

\* C17: from the end of make_single_user_data to the restore of the shared
\* data, no data block is referenced by two objects, and when the loop over
\* the roots is over the geometry of every object it did not process is
\* what it was at entry.
C17_ExclusiveDataWhileRebasing ==
    /\ pc \in {"apply_object_modifiers", "fix_objects", "restore_shared_data"} =>
         \A a, b \in Obj :
            (a # b /\ scene.data[a] # 0) => scene.data[a] # scene.data[b]
    /\ RebaserRan =>
         \A o \in Obj :
            (entry.data[o] # 0 /\ ~Processed(o)) => Geometry(scene, o) = Geometry(entry, o)

\* the rotation fix has run on one of three objects that shared a mesh at
\* entry, one of them with an active modifier
C17_Witness ==
    /\ pc = "restore_shared_data"
    /\ props.fix_unity_rotation
    /\ \E d \in DataId :
        /\ Cardinality(Sharers(d)) >= 3
        /\ SharedGeometry(d)
        /\ \E o \in Sharers(d) : ActiveModifiers(entry, o) > 0
        /\ \E o \in Sharers(d) : Processed(o)
        /\ \E o \in Sharers(d) : ~Processed(o)

\* C18: with the rotation fix, when the data blocks of shared_data are
\* about to be assigned back (lines 204-205), each of them has been through
\* the -90 degree bake once, on the one object that kept it after
\* make_single_user_data.
C18_ResharedDataIsProcessed ==
    (pc = "restore_shared_data" /\ props.fix_unity_rotation) =>
        \A n \in DOMAIN shared_data :
            LET G == shared_data[n]
            IN  \E h \in Obj :
                  /\ scene.data[h] = G
                  /\ scene.geo[G] =
                        Mul3(RotationX(-90).l, Mul3(entry.basis[h].l, entry.geo[G]))

\* whether the k-th call of the export primitive succeeds, as it did in this run
Ok(k) == k > Len(calls) \/ ~calls[k].raised

\* export(context, filepath, ...) as a function: the calls of the export
\* primitive made by a run entered with the scene sc and the properties p,
\* the primitive answering as Ok says, and the scene the run ends in; a run
\* that line 185 ends makes no call and leaves the scene as it is
Outcome(sc, p) ==
    IF ~ModeSetPoll(sc) THEN [calls |-> <<>>, scene |-> sc] ELSE
    LET st == Recorded(sc)
        r == FixRoots(apply_object_modifiers(st.sc), RootObjects(sc), 1,
                      p.fix_unity_rotation, p.move_to_center)
        restored == RestoreFlags(RestoreData(r.sc, st.shared_data),
                                 st.hidden_objects, st.disabled_objects,
                                 st.hidden_collections, st.disabled_collections)
        sel == SelectedObjects(sc)
        failing == {k \in 1..Len(sel) : ~Ok(k)}
        n == IF r.raised THEN 0
             ELSE IF ~p.export_individual_file THEN 1
             ELSE IF failing = {} THEN Len(sel)
             ELSE CHOOSE k \in failing : \A j \in failing : k <= j
    IN  [calls |->
            [k \in 1..n |->
                IF p.export_individual_file
                THEN FbxCallWith(p, SelectOnly(restored, <<sel[k]>>),
                                 IndividualPath(p.filepath, sel[k]), Ok(k))
                ELSE FbxCallWith(p, SelectOnly(restored, sel), p.filepath, Ok(k))],
         scene |-> UndoScene(restored, <<sc>>)]

\* the properties of this run with selected_objects the other way round
OtherSelectedObjects == [props EXCEPT !.selected_objects = ~@]

\* C19 (under SpecAllProperties): a run that is over, by returning or by
\* the exception of line 185, made the calls of the export primitive
\* (paths, selected sets, use_selection TRUE) and ended in the scene that a
\* run from the same scene with the same properties but the other value of
\* selected_objects makes and ends in.
C19_SelectedObjectsHasNoInfluence ==
    Ended =>
        LET other == Outcome(entry, OtherSelectedObjects)
        IN  /\ calls = other.calls
            /\ scene = other.scene
            /\ \A k \in 1..Len(calls) : calls[k].use_selection

\* a run with selected_objects False and one object not selected has
\* returned after two calls of the export primitive
C19_Witness ==
    /\ Returned
    /\ ~props.selected_objects
    /\ props.export_individual_file
    /\ Len(calls) = 2
    /\ Len(selection) < NObj

=============================================================================
